---- MODULE Spec2Model ----
(***************************************************************************)
(* Model of eelib/utils/simulation_helper.py: the connection planner       *)
(* (connect_entities, connect_entities_of_two_model_types), the validation *)
(* of connection configurations (check_model_connect_config), the forecast *)
(* binder (connect_to_forecast), the entity lookups (get_entity_by_id,     *)
(* get_entity_by_id_from_dict_list), the entity factory (create_entities,  *)
(* create_entities_of_model) and the grid binder                           *)
(* (connect_entities_in_grid).                                             *)
(*                                                                         *)
(* A model type name is a string; Chars gives its characters, on which the *)
(* code's `in` and lower() are computed.  Attribute names, which are only  *)
(* compared, are plain strings.  Python values of mixed type are tagged    *)
(* records.                                                                *)
(***************************************************************************)
EXTENDS Integers, Sequences, FiniteSets, TLC

\* ------------------------------------------------------------------ bounds
MaxTypes == 3    \* most type groups in one entity collection
MaxEnts == 2     \* most entities in one type group
MaxCfgLen == 2   \* longest connection configuration validated directly

\* ----------------------------------------------------------- python strings
\* `sub in s` of Python for strings
StrIn(sub, s) ==
    \E i \in 0..(Len(s) - Len(sub)) : SubSeq(s, i + 1, i + Len(sub)) = sub

UpperChars == <<"A","B","C","D","E","F","G","H","I","J","K","L","M",
                "N","O","P","Q","R","S","T","U","V","W","X","Y","Z">>
LowerChars == <<"a","b","c","d","e","f","g","h","i","j","k","l","m",
                "n","o","p","q","r","s","t","u","v","w","x","y","z">>

\* str.lower()
StrLower(s) ==
    [i \in 1..Len(s) |->
        IF \E k \in 1..26 : UpperChars[k] = s[i]
        THEN LowerChars[CHOOSE k \in 1..26 : UpperChars[k] = s[i]]
        ELSE s[i]]

S_ems == <<"e","m","s">>
S_EMS == <<"E","M","S">>
S_charging_station ==
    <<"c","h","a","r","g","i","n","g","_","s","t","a","t","i","o","n">>
S_car == <<"c","a","r">>
S_EV == <<"E","V">>
S_hems == <<"h","e","m","s">>
S_GridEMS == <<"G","r","i","d","E","M","S">>
S_Forecast == <<"F","o","r","e","c","a","s","t">>

\* model type names of the scenarios considered
TypeNames == {"hems", "GridEMS", "charging_station", "car", "EV"}

\* the characters of a model type name
Chars(name) ==
    IF name = "hems" THEN S_hems
    ELSE IF name = "GridEMS" THEN S_GridEMS
    ELSE IF name = "charging_station" THEN S_charging_station
    ELSE IF name = "car" THEN S_car
    ELSE IF name = "EV" THEN S_EV
    ELSE S_Forecast

\* simulator that creates the entities of a model type (sim_config)
SimNameOf(name) ==
    IF name = "hems" THEN "EMSSim"
    ELSE IF name = "GridEMS" THEN "GridEMSSim"
    ELSE IF name = "charging_station" THEN "ChargingStationSim"
    ELSE IF name = "car" THEN "CarSim"
    ELSE IF name = "EV" THEN "EVSim"
    ELSE "ForecastSim"

\* ------------------------------------------------------------ python values
PStr(a) == [py |-> "str", s |-> a]
PInt == [py |-> "int", s |-> ""]
ElemStr(a) == [py |-> "str", s |-> a, items |-> <<>>]
ElemInt == [py |-> "int", s |-> "", items |-> <<>>]
ElemTuple(its) == [py |-> "tuple", s |-> "", items |-> its]
PyList(es) == [py |-> "list", elems |-> es]
PyNone == [py |-> "NoneType", elems |-> <<>>]
CfgEmptyList == PyList(<<>>)

\* --------------------------------------------- check_model_connect_config
\* outcome of the checks made on one element of the configuration
CheckElem(el) ==
    IF el.py \notin {"str", "tuple"} THEN "TypeError"
    ELSE IF el.py = "tuple" THEN
        IF Len(el.items) < 1 THEN "IndexError"          \* elem_connect[0]
        ELSE IF el.items[1].py # "str" THEN "TypeError"
        ELSE IF Len(el.items) < 2 THEN "IndexError"     \* elem_connect[1]
        ELSE IF el.items[2].py # "str" THEN "TypeError"
        ELSE "ok"
    ELSE "ok"

\* "ok" when the function returns, else the name of the exception raised
check_model_connect_config(cfg) ==
    IF cfg.py # "list" THEN "TypeError"
    ELSE LET bad == {i \in 1..Len(cfg.elems) : CheckElem(cfg.elems[i]) # "ok"}
         IN IF bad = {} THEN "ok"
            ELSE CheckElem(cfg.elems[CHOOSE i \in bad : \A k \in bad : i <= k])

\* ------------------------------------------------------------------ entities
\* a mosaik entity created for model type `name`
Entity(name, k) ==
    [eid |-> <<name, k>>,
     full_id |-> <<SimNameOf(name), <<name, k>>>>,
     type |-> name,
     sim_name |-> SimNameOf(name)]

EntitiesOf(name, n) == [k \in 1..n |-> Entity(name, k)]

\* the shared forecast entity
forecast == Entity("Forecast", 1)

Descriptor(e) == [eid |-> e.eid, full_id |-> e.full_id, type |-> e.type]

\* (entity, dict) as <<entity, dict>>, (None, None) as <<>>
get_entity_by_id(e_list, e_id) ==
    LET hits == {i \in 1..Len(e_list) : e_list[i].eid = e_id}
    IN IF hits = {} THEN <<>>
       ELSE LET first == CHOOSE i \in hits : \A k \in hits : i <= k
            IN <<e_list[first], Descriptor(e_list[first])>>

\* variant: the last list of the dict that holds the id answers
GetFromDictListLast(e_lists, id) ==
    LET hits == {i \in 1..Len(e_lists) : Len(get_entity_by_id(e_lists[i], id)) > 0}
    IN IF hits = {} THEN <<>>
       ELSE get_entity_by_id(e_lists[CHOOSE i \in hits : \A k \in hits : k <= i], id)

\* e_lists is e_dict_list.values(): the lists of the dict in insertion order
get_entity_by_id_from_dict_list(e_lists, id) ==
    LET hits == {i \in 1..Len(e_lists) : Len(get_entity_by_id(e_lists[i], id)) > 0}
    IN IF hits = {} THEN <<>>
       ELSE get_entity_by_id(e_lists[CHOOSE i \in hits : \A k \in hits : i <= k], id)

\* --------------------------------------------------------------------- state
VARIABLES
    dict_entities,         \* ordered dict: sequence of [name, ents]
    model_connect_config,  \* model_connect_config[a][b]: attributes from a to b
    world,                 \* the world.connect calls made so far, in order
    ems_sim,               \* the add_controlled_entity calls made on dict_simulators["ems"]
    forecast_sim,          \* the add_forecasted_entity calls made on forecast_sim
    pc,                    \* "connect", "connected", "failed", "done", "check"
    idx_model_outer,       \* position of model_name_from in dict_entities (1-based)
    idx_model_inner,       \* last position of model_name_to that was handled
    err,                   \* "none" or the exception that ended the run
    chk_cfg,               \* argument of a direct check_model_connect_config call
    chk_result             \* its outcome, "pending" before the call

\* state of connect_entities_in_grid
VARIABLES
    grid_model_config,        \* ordered dict: sequence of [gcp_id, gcp_dict]
    grid_model_config_given,  \* grid_model_config as it was handed over
    grid_loads,               \* list of the load entities of the grid
    grid_dict_entities,       \* dict_entities of connect_entities_in_grid
    idx_gcp,                  \* position of the loop over grid_model_config
    grid_err,                 \* "none" or the exception connect_entities_in_grid raised
    run                       \* 1 in the first call of connect_entities_in_grid, 2 in the second

gvars == <<grid_model_config, grid_model_config_given, grid_loads,
           grid_dict_entities, idx_gcp, grid_err, run>>

\* state of the direct calls of the lookup functions
VARIABLES
    e_dict_list,   \* ordered dict of entity lists: sequence of lists
    e_id,          \* the id searched for
    found          \* the call made (fn "pending" before it) and what it returned

fvars == <<e_dict_list, e_id, found>>

\* state of create_entities and create_entities_of_model
VARIABLES
    sim_config,       \* the model names of sim_config, in iteration order
    model_data,       \* model_data[model_name]: the init values of the model
    dict_simulators,  \* dict_simulators[model_name]: the model types of the factory
    created,          \* the dict returned: sequence of [name, ents]
    create_calls,     \* the create requests made to the factories, in order
    create_err,       \* "none" or the exception raised
    create_args,      \* the call made: function and, for create_entities_of_model, arguments
    entity_list       \* the list create_entities_of_model returned

cvars == <<sim_config, model_data, dict_simulators, created, create_calls, create_err,
           create_args, entity_list>>

\* the variables a run of the planner leaves alone
others == <<gvars, fvars, cvars>>

vars == <<dict_entities, model_connect_config, world, ems_sim, forecast_sim, pc,
          idx_model_outer, idx_model_inner, err, chk_cfg, chk_result, others>>

\* the variables of the planner and of the configuration check, pc left out
pvars == <<dict_entities, model_connect_config, world, ems_sim, forecast_sim,
           idx_model_outer, idx_model_inner, err, chk_cfg, chk_result>>

\* no run of the planner
PlannerIdle ==
    /\ dict_entities = <<>>
    /\ model_connect_config = <<>>
    /\ world = <<>>
    /\ ems_sim = <<>>
    /\ forecast_sim = <<>>
    /\ idx_model_outer = 1
    /\ idx_model_inner = 0
    /\ err = "none"
    /\ chk_cfg = PyNone
    /\ chk_result = "unused"

\* no call of connect_entities_in_grid
GridIdle ==
    /\ grid_model_config = <<>>
    /\ grid_model_config_given = <<>>
    /\ grid_loads = <<>>
    /\ grid_dict_entities = <<>>
    /\ idx_gcp = 1
    /\ grid_err = "none"
    /\ run = 1

\* no direct call of a lookup function
FindIdle ==
    /\ e_dict_list = <<>>
    /\ e_id = <<>>
    /\ found = [fn |-> "unused", lst |-> 0, res |-> <<>>]

\* no call of create_entities
CreateIdle ==
    /\ sim_config = <<>>
    /\ model_data = <<>>
    /\ dict_simulators = <<>>
    /\ created = <<>>
    /\ create_calls = <<>>
    /\ create_err = "none"
    /\ create_args = [fn |-> "unused", model_factory |-> {}, model_name |-> "",
                      init_vals |-> PyNone]
    /\ entity_list = <<>>

NumTypes == Len(dict_entities)
KeyOf(i) == dict_entities[i].name
EntsOf(name) ==
    dict_entities[CHOOSE i \in 1..NumTypes : dict_entities[i].name = name].ents
HasKey(name) == \E i \in 1..NumTypes : dict_entities[i].name = name

\* --------------------------------------- connect_entities_of_two_model_types
RECURSIVE Flatten(_)
Flatten(ss) == IF ss = <<>> THEN <<>> ELSE Head(ss) \o Flatten(Tail(ss))

PyZero == [py |-> "int", n |-> 0]
PyEmptyDict == [py |-> "dict", n |-> 0]

IsEmptyList(cfg) == cfg.py = "list" /\ Len(cfg.elems) = 0

\* variant: pairs of names get no seed
SeedKeysStrOnly(conn_elem) ==
    IF conn_elem.py = "str" THEN {conn_elem.s} ELSE {}

\* key under which an element of the weak configuration is seeded
SeedKeys(conn_elem) ==
    IF conn_elem.py = "str" THEN {conn_elem.s}
    ELSE IF conn_elem.py = "tuple" THEN {conn_elem.items[1].s}
    ELSE {}

\* variant: the seed is keyed by the weak entity, the source of the weak edge
InitDataKeyedByWeak(entity_list_strong, ent_weak, cfg_weak) ==
    {[attr |-> a, id |-> ent_weak.full_id, value |-> PyZero] :
        a \in UNION {SeedKeys(cfg_weak.elems[i]) : i \in 1..Len(cfg_weak.elems)}}

\* dict_init_data, as the set of its (attribute, id, value) entries
InitData(entity_list_strong, ent_weak, cfg_weak) ==
    {[attr |-> a, id |-> entity_list_strong[k].full_id, value |-> PyZero] :
        a \in UNION {SeedKeys(cfg_weak.elems[i]) : i \in 1..Len(cfg_weak.elems)},
        k \in 1..Len(entity_list_strong)}

Connect(src, dst, attrs, weak, has_init, init) ==
    [src |-> src, dst |-> dst, attrs |-> attrs, weak |-> weak,
     has_initial_data |-> has_init, initial_data |-> init]

\* variant: only the first strong entity gets the weak edges
ConnectCallsWeakFirstOnly(ent_strong, ent_weak, entity_list_strong, cfg_strong, cfg_weak) ==
    <<Connect(ent_strong, ent_weak, cfg_strong.elems, FALSE, FALSE, {})>>
    \o (IF ~IsEmptyList(cfg_weak) /\ ent_strong = entity_list_strong[1]
        THEN <<Connect(ent_weak, ent_strong, cfg_weak.elems, TRUE, TRUE,
                       InitData(entity_list_strong, ent_weak, cfg_weak))>>
        ELSE <<>>)

\* the world.connect calls of one pass of the inner loop body
ConnectCalls(ent_strong, ent_weak, entity_list_strong, cfg_strong, cfg_weak) ==
    <<Connect(ent_strong, ent_weak, cfg_strong.elems, FALSE, FALSE, {})>>
    \o (IF ~IsEmptyList(cfg_weak)
        THEN <<Connect(ent_weak, ent_strong, cfg_weak.elems, TRUE, TRUE,
                       InitData(entity_list_strong, ent_weak, cfg_weak))>>
        ELSE <<>>)

\* variant: the controller itself is registered instead of ent_strong
ControlCallsOfWeak(ent_strong, ent_weak, sim_entities_weak_given) ==
    IF ent_weak.sim_name = "EMSSim" /\ sim_entities_weak_given
    THEN <<[ctrl |-> ent_weak.eid,
            sub |-> ent_weak.eid,
            desc |-> Descriptor(ent_weak)]>>
    ELSE <<>>

\* the add_controlled_entity calls of one pass of the inner loop body
ControlCalls(ent_strong, ent_weak, sim_entities_weak_given) ==
    IF ent_weak.sim_name = "EMSSim" /\ sim_entities_weak_given
    THEN <<[ctrl |-> ent_weak.eid,
            sub |-> get_entity_by_id(<<ent_strong>>, ent_strong.eid)[1].eid,
            desc |-> get_entity_by_id(<<ent_strong>>, ent_strong.eid)[2]]>>
    ELSE <<>>

\* every (ent_strong, ent_weak) in the order of the two nested loops
LoopPairs(entity_list_strong, entity_list_weak) ==
    LET m == Len(entity_list_strong)
        p == Len(entity_list_weak)
    IN [k \in 1..(m * p) |->
           <<entity_list_strong[((k - 1) \div p) + 1],
             entity_list_weak[((k - 1) % p) + 1]>>]

\* connect_entities_of_two_model_types: the calls it makes and how it ends.
\* world is a mosaik World here, so the hasattr check of line 568 passes.
\* the two nested loops and the log line after them (lines 580-614); line 614
\* reads ent_strong and ent_weak, which are unbound when a loop made no pass
TwoTypesCore(entity_list_strong, entity_list_weak, cfg_strong, cfg_weak, sim_entities_weak_given) ==
    LET lp == LoopPairs(entity_list_strong, entity_list_weak)
    IN [connects |->
           Flatten([k \in 1..Len(lp) |->
               ConnectCalls(lp[k][1], lp[k][2], entity_list_strong,
                            cfg_strong, cfg_weak)]),
        controls |->
           Flatten([k \in 1..Len(lp) |->
               ControlCalls(lp[k][1], lp[k][2], sim_entities_weak_given)]),
        err |-> IF Len(entity_list_strong) = 0 \/ Len(entity_list_weak) = 0
                THEN "UnboundLocalError" ELSE "none"]

\* variant: a weak configuration is accepted without a strong one
TwoTypesNoDanglingCheck(entity_list_strong, entity_list_weak, cfg_strong, cfg_weak, sim_entities_weak_given) ==
    IF check_model_connect_config(cfg_strong) # "ok"
    THEN [connects |-> <<>>, controls |-> <<>>,
          err |-> check_model_connect_config(cfg_strong)]
    ELSE IF check_model_connect_config(cfg_weak) # "ok"
    THEN [connects |-> <<>>, controls |-> <<>>,
          err |-> check_model_connect_config(cfg_weak)]
    ELSE IF IsEmptyList(cfg_strong) /\ IsEmptyList(cfg_weak)
    THEN [connects |-> <<>>, controls |-> <<>>, err |-> "none"]
    ELSE TwoTypesCore(entity_list_strong, entity_list_weak, cfg_strong, cfg_weak,
                      sim_entities_weak_given)

\* variant: the weak configuration is checked only once the strong edges are made
TwoTypesLateCheck(entity_list_strong, entity_list_weak, cfg_strong, cfg_weak, sim_entities_weak_given) ==
    IF check_model_connect_config(cfg_strong) # "ok"
    THEN [connects |-> <<>>, controls |-> <<>>,
          err |-> check_model_connect_config(cfg_strong)]
    ELSE IF check_model_connect_config(cfg_weak) # "ok"
    THEN [connects |->
             TwoTypesCore(entity_list_strong, entity_list_weak, cfg_strong,
                          CfgEmptyList, sim_entities_weak_given).connects,
          controls |-> <<>>,
          err |-> check_model_connect_config(cfg_weak)]
    ELSE IF IsEmptyList(cfg_strong)
    THEN [connects |-> <<>>, controls |-> <<>>,
          err |-> IF ~IsEmptyList(cfg_weak) THEN "ValueError" ELSE "none"]
    ELSE TwoTypesCore(entity_list_strong, entity_list_weak, cfg_strong, cfg_weak,
                      sim_entities_weak_given)

connect_entities_of_two_model_types(entity_list_strong, entity_list_weak, cfg_strong, cfg_weak, sim_entities_weak_given) ==
    IF check_model_connect_config(cfg_strong) # "ok"
    THEN [connects |-> <<>>, controls |-> <<>>,
          err |-> check_model_connect_config(cfg_strong)]
    ELSE IF check_model_connect_config(cfg_weak) # "ok"
    THEN [connects |-> <<>>, controls |-> <<>>,
          err |-> check_model_connect_config(cfg_weak)]
    ELSE IF IsEmptyList(cfg_strong)
    THEN [connects |-> <<>>, controls |-> <<>>,
          err |-> IF ~IsEmptyList(cfg_weak) THEN "ValueError" ELSE "none"]
    ELSE TwoTypesCore(entity_list_strong, entity_list_weak, cfg_strong, cfg_weak,
                      sim_entities_weak_given)

\* ----------------------------------------------------------- connect_entities
\* dict_simulators holds the simulator "ems" (lines 274, 280, 312), and
\* model_connect_config an entry for every ordered pair of types.
\* "ems" in name or "EMS" in name
IsEmsName(name) == StrIn(S_ems, Chars(name)) \/ StrIn(S_EMS, Chars(name))

\* `if idx_model_inner <= idx_model_outer: continue`
SkipPair(idx_outer, idx_inner) == idx_inner <= idx_outer

\* the next position of the inner loop that is not skipped (NumTypes + 1: none)
NextInner ==
    LET todo == {j \in (idx_model_inner + 1)..NumTypes : ~SkipPair(idx_model_outer, j)}
    IN IF todo = {} THEN NumTypes + 1
       ELSE CHOOSE j \in todo : \A k \in todo : j <= k

\* name_from (strong side), name_to (weak side) and whether sim_entities_weak
\* is dict_simulators["ems"] (TRUE) or None (FALSE)
\* variant: the direction is never switched for an ems
DirectionNoEmsSwitch(model_name_from, model_name_to) ==
    [name_from |-> model_name_from, name_to |-> model_name_to,
     ems |-> IsEmsName(model_name_from) \/ IsEmsName(model_name_to)]

\* variant: the direction is never switched for charging station and car
DirectionNoCarSwitch(model_name_from, model_name_to) ==
    IF IsEmsName(model_name_from)
    THEN [name_from |-> model_name_to, name_to |-> model_name_from, ems |-> TRUE]
    ELSE IF IsEmsName(model_name_to)
    THEN [name_from |-> model_name_from, name_to |-> model_name_to, ems |-> TRUE]
    ELSE [name_from |-> model_name_from, name_to |-> model_name_to, ems |-> FALSE]

\* lines 272-292
Direction(model_name_from, model_name_to) ==
    IF IsEmsName(model_name_from)
    THEN [name_from |-> model_name_to, name_to |-> model_name_from, ems |-> TRUE]
    ELSE IF IsEmsName(model_name_to)
    THEN [name_from |-> model_name_from, name_to |-> model_name_to, ems |-> TRUE]
    ELSE IF /\ StrIn(S_charging_station, Chars(model_name_from))
            /\ StrIn(S_car, Chars(model_name_to))
    THEN [name_from |-> model_name_to, name_to |-> model_name_from, ems |-> FALSE]
    ELSE [name_from |-> model_name_from, name_to |-> model_name_to, ems |-> FALSE]

\* lines 305-314: the electric vehicles registered with every ems of the type
EvControlCalls(model_name_from) ==
    IF IsEmsName(model_name_from) /\ HasKey("EV")
    THEN LET lp == LoopPairs(EntsOf(model_name_from), EntsOf("EV"))
         IN [k \in 1..Len(lp) |->
               [ctrl |-> lp[k][1].eid,
                sub |-> get_entity_by_id(EntsOf("EV"), lp[k][2].eid)[1].eid,
                desc |-> get_entity_by_id(EntsOf("EV"), lp[k][2].eid)[2]]]
    ELSE <<>>

\* one pass of the inner loop body of connect_entities (lines 267-302)
ConnectPair ==
    /\ pc = "connect"
    /\ NextInner <= NumTypes
    /\ LET d == Direction(KeyOf(idx_model_outer), KeyOf(NextInner))
           r == connect_entities_of_two_model_types(
                    EntsOf(d.name_from), EntsOf(d.name_to),
                    model_connect_config[d.name_from][d.name_to],
                    model_connect_config[d.name_to][d.name_from],
                    d.ems)
       IN /\ world' = world \o r.connects
          /\ ems_sim' = ems_sim \o r.controls
          /\ err' = r.err
          /\ pc' = IF r.err = "none" THEN "connect" ELSE "failed"
          /\ idx_model_inner' = NextInner
    /\ UNCHANGED <<dict_entities, model_connect_config, forecast_sim,
                   idx_model_outer, chk_cfg, chk_result, others>>

\* the end of one pass of the outer loop (lines 304-314)
EndOuter ==
    /\ pc = "connect"
    /\ NextInner > NumTypes
    /\ ems_sim' = ems_sim \o EvControlCalls(KeyOf(idx_model_outer))
    /\ IF idx_model_outer < NumTypes
       THEN /\ idx_model_outer' = idx_model_outer + 1
            /\ idx_model_inner' = 0
            /\ pc' = "connect"
       ELSE /\ UNCHANGED <<idx_model_outer, idx_model_inner>>
            /\ pc' = "connected"
    /\ UNCHANGED <<dict_entities, model_connect_config, world, forecast_sim, err,
                   chk_cfg, chk_result, others>>

\* -------------------------------------------------------- connect_to_forecast
\* "ems" in model_name.lower()
IsEmsNameLower(model_name) == StrIn(S_ems, StrLower(Chars(model_name)))

\* variant: only the request edge is made
ForecastConnectsRequestOnly(entity) ==
    <<Connect(entity, forecast, <<ElemStr("forecast_request")>>, FALSE, FALSE, {})>>

\* lines 525-532
ForecastConnects(entity) ==
    <<Connect(entity, forecast, <<ElemStr("forecast_request")>>, FALSE, FALSE, {}),
      Connect(forecast, entity, <<ElemStr("forecast")>>, TRUE, TRUE,
              {[attr |-> "forecast", id |-> forecast.full_id, value |-> PyEmptyDict]})>>

\* every entity of every model type, in iteration order, with its type name
AllEntities ==
    Flatten([i \in 1..NumTypes |->
        [k \in 1..Len(dict_entities[i].ents) |->
            [model_name |-> dict_entities[i].name, entity |-> dict_entities[i].ents[k]]]])

ConnectToForecast ==
    /\ pc = "connected"
    /\ world' = world \o
          Flatten([k \in 1..Len(AllEntities) |->
              IF IsEmsNameLower(AllEntities[k].model_name)
              THEN ForecastConnects(AllEntities[k].entity) ELSE <<>>])
    /\ forecast_sim' = forecast_sim \o
          Flatten([k \in 1..Len(AllEntities) |->
              IF IsEmsNameLower(AllEntities[k].model_name) THEN <<>>
              ELSE <<[forecast |-> forecast.eid,
                      id |-> AllEntities[k].entity.full_id,
                      model |-> AllEntities[k].entity.eid]>>])
    /\ pc' = "done"
    /\ UNCHANGED <<dict_entities, model_connect_config, ems_sim, idx_model_outer,
                   idx_model_inner, err, chk_cfg, chk_result, others>>

\* ------------------------------------------------------------------- scenarios
Injective(f) == \A i, j \in DOMAIN f : f[i] = f[j] => i = j

\* the orders in which 2..MaxTypes model types can be keys of dict_entities
TypeOrders ==
    UNION {{f \in [1..n -> TypeNames] : Injective(f)} : n \in 2..MaxTypes}

CfgDefault == PyList(<<ElemStr("p")>>)
CfgEmpty == CfgEmptyList
CfgPairs == PyList(<<ElemTuple(<<PStr("a"), PStr("b")>>), ElemStr("q")>>)
CfgNoList == PyNone

\* what model_connect_config may hold for the one pair of types it varies
PairConfigs == {CfgEmpty, CfgPairs, CfgNoList}

\* every entry holds CfgDefault but the two of types a and b
ConfigMatrix(names, a, b, cfg_ab, cfg_ba) ==
    [x \in names |-> [y \in names \ {x} |->
        IF x = a /\ y = b THEN cfg_ab
        ELSE IF x = b /\ y = a THEN cfg_ba
        ELSE CfgDefault]]

Range(f) == {f[i] : i \in DOMAIN f}

Init ==
    /\ \E order \in TypeOrders :
         /\ \E empty \in 0..Len(order), n \in 1..MaxEnts :
               dict_entities =
                  [i \in 1..Len(order) |->
                     [name |-> order[i],
                      ents |-> IF i = empty THEN <<>>
                               ELSE EntitiesOf(order[i], n)]]
         /\ \/ model_connect_config =
                  ConfigMatrix(Range(order), order[1], order[2], CfgDefault, CfgDefault)
            \/ \E i, j \in 1..Len(order) : \E x, y \in PairConfigs :
                  /\ i < j
                  /\ model_connect_config =
                        ConfigMatrix(Range(order), order[i], order[j], x, y)
    /\ world = <<>>
    /\ ems_sim = <<>>
    /\ forecast_sim = <<>>
    /\ pc = "connect"
    /\ idx_model_outer = 1
    /\ idx_model_inner = 0
    /\ err = "none"
    /\ chk_cfg = PyNone
    /\ chk_result = "unused"
    /\ GridIdle /\ FindIdle /\ CreateIdle

Next == ConnectPair \/ EndOuter \/ ConnectToForecast

Spec == Init /\ [][Next]_vars

\* ------------------------------ direct calls of check_model_connect_config
MaxTupleLen == 3   \* longest tuple used as an element of a configuration

TupleItems == {PStr("a"), PInt}

CheckElems ==
    {ElemStr("a"), ElemInt}
    \cup {ElemTuple(t) : t \in UNION {[1..n -> TupleItems] : n \in 0..MaxTupleLen}}

CheckConfigs ==
    {PyNone, [py |-> "str", elems |-> <<>>]}
    \cup {PyList(l) : l \in UNION {[1..n -> CheckElems] : n \in 0..MaxCfgLen}}

InitCheck ==
    /\ chk_cfg \in CheckConfigs
    /\ chk_result = "pending"
    /\ pc = "check"
    /\ dict_entities = <<>>
    /\ model_connect_config = <<>>
    /\ world = <<>>
    /\ ems_sim = <<>>
    /\ forecast_sim = <<>>
    /\ idx_model_outer = 1
    /\ idx_model_inner = 0
    /\ err = "none"
    /\ GridIdle /\ FindIdle /\ CreateIdle

CallCheck ==
    /\ pc = "check"
    /\ chk_result' = check_model_connect_config(chk_cfg)
    /\ pc' = "done"
    /\ UNCHANGED <<dict_entities, model_connect_config, world, ems_sim, forecast_sim,
                   idx_model_outer, idx_model_inner, err, chk_cfg, others>>

NextCheck == CallCheck

SpecCheck == InitCheck /\ [][NextCheck]_vars

\* ------------------------------------------------ create_entities_of_model
\* one per-instance object of model_data
InitObj(strategy, no) ==
    [strategy |-> strategy, no |-> no, grid_model_config |-> "unset"]

\* what the create method of a model of the factory returns: one entity for
\* each object of init_vals
FactoryCreate(model_name, init_vals) ==
    [k \in 1..Len(init_vals.elems) |-> [type |-> model_name, init |-> init_vals.elems[k]]]

\* variant: the format of init_vals is checked before the model type
CreateOfModelTypeFirst(model_factory, model_name, init_vals) ==
    IF init_vals.py # "list"
    THEN [err |-> "TypeError", calls |-> <<>>, entity_list |-> <<>>]
    ELSE IF model_name \notin model_factory
    THEN [err |-> "KeyError", calls |-> <<>>, entity_list |-> <<>>]
    ELSE IF Len(init_vals.elems) = 0
    THEN [err |-> "none", calls |-> <<>>, entity_list |-> <<>>]
    ELSE [err |-> "none",
          calls |-> <<[model |-> model_name, num |-> Len(init_vals.elems),
                       init_vals |-> init_vals.elems,
                       result |-> FactoryCreate(model_name, init_vals)]>>,
          entity_list |-> FactoryCreate(model_name, init_vals)]

\* model_factory is the set of the model types the factory has
create_entities_of_model(model_factory, model_name, init_vals) ==
    IF model_name \notin model_factory
    THEN [err |-> "KeyError", calls |-> <<>>, entity_list |-> <<>>]
    ELSE IF init_vals.py # "list"
    THEN [err |-> "TypeError", calls |-> <<>>, entity_list |-> <<>>]
    ELSE IF Len(init_vals.elems) = 0
    THEN [err |-> "none", calls |-> <<>>, entity_list |-> <<>>]
    ELSE [err |-> "none",
          calls |-> <<[model |-> model_name, num |-> Len(init_vals.elems),
                       init_vals |-> init_vals.elems,
                       result |-> FactoryCreate(model_name, init_vals)]>>,
          entity_list |-> FactoryCreate(model_name, init_vals)]

\* ---------------------------------------------------------- create_entities
\* d[key] = val on an ordered dict
DictSet(d, key, val) ==
    IF \E i \in DOMAIN d : d[i].name = key
    THEN [i \in DOMAIN d |-> IF d[i].name = key THEN [name |-> key, ents |-> val] ELSE d[i]]
    ELSE Append(d, [name |-> key, ents |-> val])

\* the keys of model_data_ems_type: the strategies in the order they first occur
StrategyKeys(items) ==
    LET idxs == SelectSeq([i \in DOMAIN items |-> i],
                   LAMBDA i : \A k \in 1..(i - 1) : items[k].strategy # items[i].strategy)
    IN [j \in DOMAIN idxs |-> items[idxs[j]].strategy]

\* model_data_ems_type[strategy]
EmsDataOf(items, strategy) == SelectSeq(items, LAMBDA it : it.strategy = strategy)

\* the loop of lines 139-146 over the strategies left in keys; after the loop
\* of line 131 the variable ems is the last object of model_data["ems"]
RECURSIVE EmsLoop(_, _, _, _)
EmsLoop(acc, keys, model_factory, items) ==
    IF acc.err # "none" \/ keys = <<>> THEN acc
    ELSE LET ems_strategy_name == Head(keys)
             ems == items[Len(items)]
         IN IF ems_strategy_name \notin model_factory
            THEN [acc EXCEPT !.err = "KeyError"]
            ELSE LET r == create_entities_of_model(model_factory, ems_strategy_name,
                              PyList(EmsDataOf(items, ems.strategy)))
                 IN EmsLoop([dict |-> IF r.err = "none"
                                      THEN DictSet(acc.dict, ems.strategy, r.entity_list)
                                      ELSE acc.dict,
                             calls |-> acc.calls \o r.calls,
                             err |-> r.err,
                             model_data |-> acc.model_data],
                            Tail(keys), model_factory, items)

\* lines 149-151: every object of the GridEMS data gets the grid model config
WithGridModelConfig(init_vals) ==
    PyList([i \in DOMAIN init_vals.elems |->
               [init_vals.elems[i] EXCEPT !.grid_model_config = "set"]])

\* one pass of the loop over the models (lines 126-161)
CreateModel(acc, model_name) ==
    IF model_name = "ems"
    THEN IF acc.model_data["ems"].py # "list"
         THEN [acc EXCEPT !.err = "TypeError"]     \* line 131 iterates it
         ELSE EmsLoop(acc, StrategyKeys(acc.model_data["ems"].elems),
                      dict_simulators["ems"], acc.model_data["ems"].elems)
    ELSE IF model_name = "GridEMS" /\ acc.model_data[model_name].py # "list"
    THEN [acc EXCEPT !.err = "TypeError"]          \* len() of line 150
    ELSE LET data == IF model_name = "GridEMS"
                     THEN [acc.model_data EXCEPT
                              ![model_name] = WithGridModelConfig(acc.model_data[model_name])]
                     ELSE acc.model_data
             r == create_entities_of_model(dict_simulators[model_name], model_name,
                                           data[model_name])
         IN [dict |-> IF r.err = "none"
                      THEN DictSet(acc.dict, model_name, r.entity_list) ELSE acc.dict,
             calls |-> acc.calls \o r.calls,
             err |-> r.err,
             model_data |-> data]

RECURSIVE CreateLoop(_, _)
CreateLoop(acc, names) ==
    IF acc.err # "none" \/ names = <<>> THEN acc
    ELSE CreateLoop(CreateModel(acc, Head(names)), Tail(names))

\* what create_entities does: the dict it builds, the create requests, how it
\* ends and what it leaves in model_data
create_entities ==
    CreateLoop([dict |-> <<>>, calls |-> <<>>, err |-> "none", model_data |-> model_data],
               sim_config)

MaxInit == 3   \* most per-instance objects in model_data for one model

\* operating strategies of the energy management systems
Strategies == {"hems", "HEMS_forecast"}

\* what model_data may hold for "ems": no list, or objects naming strategies
EmsData ==
    {PyNone} \cup
    UNION {{PyList([i \in 1..n |-> InitObj(f[i], i)]) : f \in [1..n -> Strategies]} :
              n \in 0..MaxInit}

\* what model_data may hold for another model
DeviceData ==
    {PyNone} \cup {PyList([i \in 1..n |-> InitObj("", i)]) : n \in 0..MaxInit}

\* the models of sim_config in iteration order
SimConfigs ==
    UNION {{f \in [1..n -> {"ems", "car", "GridEMS"}] : Injective(f)} : n \in 1..2}

InitCreate ==
    /\ sim_config \in SimConfigs
    /\ model_data \in
          {f \in [Range(sim_config) -> EmsData \cup DeviceData] :
              \A m \in Range(sim_config) :
                  f[m] \in (IF m = "ems" THEN EmsData ELSE DeviceData)}
    /\ dict_simulators \in
          {f \in [Range(sim_config) -> SUBSET (Strategies \cup Range(sim_config))] :
              \A m \in Range(sim_config) :
                  f[m] \in (IF m = "ems" THEN {Strategies, {"hems"}} ELSE {{m}, {}})}
    /\ created = <<>>
    /\ create_calls = <<>>
    /\ create_err = "none"
    /\ create_args = [fn |-> "pending", model_factory |-> {}, model_name |-> "",
                      init_vals |-> PyNone]
    /\ entity_list = <<>>
    /\ pc = "create"
    /\ PlannerIdle /\ GridIdle /\ FindIdle

\* create_entities; dict_entities is returned only when nothing is raised
CallCreateEntities ==
    /\ pc = "create"
    /\ created' = IF create_entities.err = "none" THEN create_entities.dict ELSE <<>>
    /\ create_calls' = create_entities.calls
    /\ create_err' = create_entities.err
    /\ model_data' = create_entities.model_data
    /\ create_args' = [create_args EXCEPT !.fn = "create_entities"]
    /\ pc' = "done"
    /\ UNCHANGED <<pvars, gvars, fvars, sim_config, dict_simulators, entity_list>>

\* create_entities_of_model called for a model of sim_config
CallCreateEntitiesOfModel ==
    /\ pc = "create"
    /\ \E m \in Range(sim_config) :
       \E model_name \in (IF m = "ems" THEN Strategies ELSE {m}) :
          LET r == create_entities_of_model(dict_simulators[m], model_name, model_data[m])
          IN /\ create_args' = [fn |-> "create_entities_of_model",
                                model_factory |-> dict_simulators[m],
                                model_name |-> model_name,
                                init_vals |-> model_data[m]]
             /\ entity_list' = r.entity_list
             /\ create_calls' = r.calls
             /\ create_err' = r.err
    /\ pc' = "done"
    /\ UNCHANGED <<pvars, gvars, fvars, sim_config, model_data, dict_simulators, created>>

NextCreate == CallCreateEntities \/ CallCreateEntitiesOfModel

SpecCreate == InitCreate /\ [][NextCreate]_vars

\* --------------------------------------------------- connect_entities_in_grid
\* a load of the grid and the grid itself, entities of the grid simulator
GridLoad(k) ==
    [eid |-> <<"load", k>>, full_id |-> <<"GridSim", <<"load", k>>>>,
     type |-> "load", sim_name |-> "GridSim"]
grid ==
    [eid |-> <<"grid", 1>>, full_id |-> <<"GridSim", <<"grid", 1>>>>,
     type |-> "grid", sim_name |-> "GridSim"]

\* an entry of a gcp_dict: the key "ems" holds None, "" or an id (ids: none or
\* the one id), every other key a list of ids
GcpEms(py, ids) == [key |-> "ems", py |-> py, ids |-> ids]
GcpList(key, ids) == [key |-> key, py |-> "list", ids |-> ids]
GcpHas(gcp_dict, key) == \E i \in DOMAIN gcp_dict : gcp_dict[i].key = key
GcpGet(gcp_dict, key) ==
    gcp_dict[CHOOSE i \in DOMAIN gcp_dict : gcp_dict[i].key = key]
\* del gcp_dict[key]
GcpDel(gcp_dict, key) == SelectSeq(gcp_dict, LAMBDA en : en.key # key)

\* the exceptions connect_entities_in_grid raises or lets through
E_NotCreated == "KeyError: entity was not created"                \* line 376
E_NoStation == "ValueError: no charging station"                  \* line 388
E_TwoConnections == "KeyError: two separate connections"          \* line 433
E_NoEmsKey == "KeyError: 'ems'"                                   \* line 358
E_NoneSubscript == "TypeError: 'NoneType' is not subscriptable"   \* line 406
E_UnboundGcp == "UnboundLocalError: gcp"                          \* line 395
E_NoGridLoadKey == "KeyError: 'grid_load'"                        \* line 406
E_EmptyGridEms == "IndexError: list index out of range"           \* line 348

\* e_dict_list.values() of an ordered dict of entity lists
DictValues(d) == [i \in DOMAIN d |-> d[i].ents]

\* the lookup of lines 366 and 401
Resolve(id) == get_entity_by_id_from_dict_list(DictValues(grid_dict_entities), id)

\* dict_ent_gcp after the entity is appended to the list of its type
\* (lines 382-385)
DictAppend(d, ent) ==
    IF \E i \in DOMAIN d : d[i].name = ent.type
    THEN [i \in DOMAIN d |->
             IF d[i].name = ent.type
             THEN [name |-> d[i].name, ents |-> Append(d[i].ents, ent)] ELSE d[i]]
    ELSE Append(d, [name |-> ent.type, ents |-> <<ent>>])

RECURSIVE GroupByType(_, _)
GroupByType(d, ids) ==
    IF ids = <<>> THEN d
    ELSE GroupByType(DictAppend(d, Resolve(Head(ids))[1]), Tail(ids))

\* every id of the lists of gcp_dict, in the order of lines 364-365
ListedIds(gcp_dict) == Flatten([i \in DOMAIN gcp_dict |-> gcp_dict[i].ids])

\* the variable gcp after the loop of lines 391-393: the load with the id,
\* else the last load; <<>> when it was never bound
GcpAfterLoop(gcp_id) ==
    LET hits == {i \in DOMAIN grid_loads : grid_loads[i].eid = gcp_id}
    IN IF grid_loads = <<>> THEN <<>>
       ELSE IF hits = {} THEN <<grid_loads[Len(grid_loads)]>>
       ELSE <<grid_loads[CHOOSE i \in hits : \A k \in hits : i <= k]>>

\* "grid_load" in model_connect_config[ent_type]
HasGridLoad(ent_type) == "grid_load" \in DOMAIN model_connect_config[ent_type]

\* the entities of dict_ent_gcp in the order of lines 421-422
EntsAt(dict_ent_gcp) == Flatten(DictValues(dict_ent_gcp))

\* variant: every device with a "grid_load" mapping is connected to the load
DeviceLinksAll(dict_ent_gcp, gcp) ==
    LET cand == SelectSeq(EntsAt(dict_ent_gcp), LAMBDA ent : HasGridLoad(ent.type))
    IN [connects |->
           [k \in DOMAIN cand |->
               Connect(cand[k], gcp, model_connect_config[cand[k].type]["grid_load"].elems,
                       FALSE, FALSE, {})],
        err |-> "none"]

\* lines 418-449: the first device whose type has a "grid_load" mapping is
\* connected to the load, a second one raises
DeviceLinks(dict_ent_gcp, gcp) ==
    LET cand == SelectSeq(EntsAt(dict_ent_gcp), LAMBDA ent : HasGridLoad(ent.type))
    IN [connects |->
           IF cand = <<>> THEN <<>>
           ELSE <<Connect(cand[1], gcp,
                          model_connect_config[cand[1].type]["grid_load"].elems,
                          FALSE, FALSE, {})>>,
        err |-> IF Len(cand) > 1 THEN E_TwoConnections ELSE "none"]

\* lines 399-415: the ems of the gcp is connected to the load and put into
\* dict_ent_gcp
EmsLink(ems_gcp_id, dict_ent_gcp, gcp) ==
    LET found_ems == Resolve(ems_gcp_id)
    IN IF Len(found_ems) = 0
       THEN [connects |-> <<>>, err |-> E_NoneSubscript, dict_ent_gcp |-> dict_ent_gcp]
       ELSE IF ~HasGridLoad(found_ems[2].type)
       THEN [connects |-> <<>>, err |-> E_NoGridLoadKey, dict_ent_gcp |-> dict_ent_gcp]
       ELSE [connects |->
                <<Connect(found_ems[1], gcp,
                          model_connect_config[found_ems[2].type]["grid_load"].elems,
                          FALSE, FALSE, {})>>,
             err |-> "none",
             dict_ent_gcp |-> DictSet(dict_ent_gcp, found_ems[1].type, <<found_ems[1]>>)]

\* variant: the charging stations are checked for only once the load is found
BindGcpStationLate(gcp_id, ems, gcp_dict) ==
    LET none == [connects |-> <<>>, err |-> "none", returned |-> FALSE, dict_ent_gcp |-> <<>>]
        ids == ListedIds(gcp_dict)
        after == GcpAfterLoop(gcp_id)
    IN IF \E i \in DOMAIN ids : Len(Resolve(ids[i])) = 0
       THEN [none EXCEPT !.err = E_NotCreated]
       ELSE IF after = <<>>
       THEN [none EXCEPT !.err = E_UnboundGcp]
       ELSE IF after[1].eid # gcp_id
       THEN [none EXCEPT !.returned = TRUE]
       ELSE IF Len(GcpGet(gcp_dict, "ev").ids) > 0 /\ Len(GcpGet(gcp_dict, "cs").ids) = 0
       THEN [none EXCEPT !.err = E_NoStation]
       ELSE LET dict_ent_gcp == GroupByType(<<>>, ids)
            IN IF ems.py # "NoneType" /\ ems.ids # <<>>
               THEN LET r == EmsLink(ems.ids[1], dict_ent_gcp, after[1])
                    IN [connects |-> r.connects, err |-> r.err, returned |-> FALSE,
                        dict_ent_gcp |-> r.dict_ent_gcp]
               ELSE LET r == DeviceLinks(dict_ent_gcp, after[1])
                    IN [connects |-> r.connects, err |-> r.err, returned |-> FALSE,
                        dict_ent_gcp |-> dict_ent_gcp]

\* one pass of the loop over grid_model_config from line 361 up to the call of
\* connect_entities: the connections made, the exception raised, whether the
\* function returned (line 396), and dict_ent_gcp
BindGcpResult(gcp_id, ems, gcp_dict) ==
    LET none == [connects |-> <<>>, err |-> "none", returned |-> FALSE, dict_ent_gcp |-> <<>>]
        ids == ListedIds(gcp_dict)
        after == GcpAfterLoop(gcp_id)
    IN IF \E i \in DOMAIN ids : Len(Resolve(ids[i])) = 0
       THEN [none EXCEPT !.err = E_NotCreated]
       ELSE IF Len(GcpGet(gcp_dict, "ev").ids) > 0 /\ Len(GcpGet(gcp_dict, "cs").ids) = 0
       THEN [none EXCEPT !.err = E_NoStation]
       ELSE IF after = <<>>
       THEN [none EXCEPT !.err = E_UnboundGcp]
       ELSE IF after[1].eid # gcp_id
       THEN [none EXCEPT !.returned = TRUE]
       ELSE LET dict_ent_gcp == GroupByType(<<>>, ids)
            IN IF ems.py # "NoneType" /\ ems.ids # <<>>
               THEN LET r == EmsLink(ems.ids[1], dict_ent_gcp, after[1])
                    IN [connects |-> r.connects, err |-> r.err, returned |-> FALSE,
                        dict_ent_gcp |-> r.dict_ent_gcp]
               ELSE LET r == DeviceLinks(dict_ent_gcp, after[1])
                    IN [connects |-> r.connects, err |-> r.err, returned |-> FALSE,
                        dict_ent_gcp |-> dict_ent_gcp]

\* lines 345-352: the grid ems, if there is one, is connected to the grid
GridStart ==
    /\ pc = "grid_start"
    /\ LET present == \E i \in DOMAIN grid_dict_entities :
                          grid_dict_entities[i].name = "GridEMS"
           ents == grid_dict_entities[CHOOSE i \in DOMAIN grid_dict_entities :
                                         grid_dict_entities[i].name = "GridEMS"].ents
       IN IF present /\ Len(ents) = 0
          THEN /\ grid_err' = E_EmptyGridEms
               /\ pc' = "failed"
               /\ UNCHANGED world
          ELSE /\ world' = IF present
                           THEN Append(world,
                                    Connect(grid, ents[1],
                                            <<ElemStr("grid_status"), ElemStr("ptdf_mat"),
                                              ElemStr("vpif_mat")>>, FALSE, FALSE, {}))
                           ELSE world
               /\ pc' = IF grid_model_config = <<>> THEN "returned" ELSE "gcp"
               /\ UNCHANGED grid_err
    /\ idx_gcp' = 1
    /\ UNCHANGED <<dict_entities, model_connect_config, ems_sim, forecast_sim,
                   idx_model_outer, idx_model_inner, err, chk_cfg, chk_result,
                   grid_model_config, grid_model_config_given, grid_loads,
                   grid_dict_entities, run, fvars, cvars>>

\* one pass of the loop over grid_model_config (lines 356-452), up to the call
\* of connect_entities, whose passes are ConnectPair and EndOuter
BindGcp ==
    /\ pc = "gcp"
    /\ LET gcp_id == grid_model_config[idx_gcp].gcp_id
           gcp_dict == grid_model_config[idx_gcp].gcp_dict
       IN IF ~GcpHas(gcp_dict, "ems")
          THEN /\ grid_err' = E_NoEmsKey
               /\ pc' = "failed"
               /\ UNCHANGED <<grid_model_config, world, dict_entities,
                              idx_model_outer, idx_model_inner>>
          ELSE LET r == BindGcpResult(gcp_id, GcpGet(gcp_dict, "ems"),
                                      GcpDel(gcp_dict, "ems"))
               IN /\ grid_model_config' =
                        [grid_model_config EXCEPT
                            ![idx_gcp] = [gcp_id |-> gcp_id,
                                          gcp_dict |-> GcpDel(gcp_dict, "ems")]]
                  /\ world' = world \o r.connects
                  /\ grid_err' = r.err
                  /\ IF r.err # "none" \/ r.returned
                     THEN /\ pc' = IF r.err # "none" THEN "failed" ELSE "returned"
                          /\ UNCHANGED <<dict_entities, idx_model_outer, idx_model_inner>>
                     ELSE /\ dict_entities' = r.dict_ent_gcp
                          /\ idx_model_outer' = 1
                          /\ idx_model_inner' = 0
                          /\ pc' = IF r.dict_ent_gcp = <<>> THEN "connected" ELSE "connect"
    /\ UNCHANGED <<model_connect_config, ems_sim, forecast_sim, err, chk_cfg, chk_result,
                   grid_model_config_given, grid_loads, grid_dict_entities, idx_gcp,
                   run, fvars, cvars>>

\* connect_entities has returned: the next pass of the loop, or the end
NextGcp ==
    /\ pc = "connected"
    /\ IF idx_gcp < Len(grid_model_config)
       THEN idx_gcp' = idx_gcp + 1 /\ pc' = "gcp"
       ELSE pc' = "returned" /\ UNCHANGED idx_gcp
    /\ UNCHANGED <<pvars, grid_model_config, grid_model_config_given, grid_loads,
                   grid_dict_entities, grid_err, run, fvars, cvars>>

\* connect_entities_in_grid is called a second time with the same objects
Rerun ==
    /\ pc = "returned"
    /\ run = 1
    /\ run' = 2
    /\ pc' = "grid_start"
    /\ UNCHANGED <<pvars, grid_model_config, grid_model_config_given, grid_loads,
                   grid_dict_entities, idx_gcp, grid_err, fvars, cvars>>

MaxGcps == 2   \* most grid connection points in grid_model_config

Id_hems == <<"hems", 1>>
Id_cs1 == <<"charging_station", 1>>
Id_cs2 == <<"charging_station", 2>>
Id_car == <<"car", 1>>
Id_ghost == <<"ghost", 1>>    \* the id of no entity

GcpDict(ems, cs, ev) == <<ems, GcpList("cs", cs), GcpList("ev", ev)>>

\* what grid_model_config may hold for one grid connection point
GcpDicts ==
    {GcpDict(GcpEms("str", <<Id_hems>>), <<Id_cs1>>, <<Id_car>>),
     GcpDict(GcpEms("NoneType", <<>>), <<Id_cs1>>, <<Id_car>>),
     GcpDict(GcpEms("NoneType", <<>>), <<>>, <<Id_car>>),
     GcpDict(GcpEms("str", <<Id_hems>>), <<>>, <<Id_car>>),
     GcpDict(GcpEms("NoneType", <<>>), <<Id_cs1, Id_cs2>>, <<>>),
     GcpDict(GcpEms("NoneType", <<>>), <<Id_ghost>>, <<>>),
     GcpDict(GcpEms("str", <<Id_ghost>>), <<Id_cs1>>, <<>>),
     GcpDict(GcpEms("str", <<Id_ghost>>), <<>>, <<Id_car>>),
     GcpDict(GcpEms("str", <<>>), <<>>, <<>>)}

\* the types of the devices and controllers behind the grid connection points
GridTypes == {"hems", "charging_station", "car"}

\* model_connect_config with a "grid_load" mapping for the types of with_load
GridConnectConfig(with_load) ==
    [x \in GridTypes |->
        [y \in (GridTypes \ {x}) \cup (IF x \in with_load THEN {"grid_load"} ELSE {}) |->
            CfgDefault]]

\* the loads 1..n of which the ones in keep are in the grid
RECURSIVE LoadsOf(_, _)
LoadsOf(n, keep) ==
    IF n = 0 THEN <<>>
    ELSE LoadsOf(n - 1, keep) \o (IF n \in keep THEN <<GridLoad(n)>> ELSE <<>>)

InitGrid ==
    /\ \E n \in 1..MaxGcps : \E kinds \in [1..n -> GcpDicts] :
          grid_model_config =
             [i \in 1..n |-> [gcp_id |-> GridLoad(i).eid, gcp_dict |-> kinds[i]]]
    /\ grid_model_config_given = grid_model_config
    /\ \E keep \in SUBSET (1..MaxGcps) : grid_loads = LoadsOf(MaxGcps, keep)
    /\ \E grid_ems \in {<<>>,
                         <<[name |-> "GridEMS", ents |-> <<>>]>>,
                         <<[name |-> "GridEMS", ents |-> EntitiesOf("GridEMS", 1)]>>} :
          grid_dict_entities =
             <<[name |-> "hems", ents |-> EntitiesOf("hems", 1)],
               [name |-> "charging_station", ents |-> EntitiesOf("charging_station", MaxEnts)],
               [name |-> "car", ents |-> EntitiesOf("car", 1)]>> \o grid_ems
    /\ model_connect_config \in
          {GridConnectConfig({"hems", "charging_station"}), GridConnectConfig(GridTypes),
           GridConnectConfig({"charging_station"})}
    /\ idx_gcp = 1
    /\ grid_err = "none"
    /\ run = 1
    /\ dict_entities = <<>>
    /\ world = <<>>
    /\ ems_sim = <<>>
    /\ forecast_sim = <<>>
    /\ idx_model_outer = 1
    /\ idx_model_inner = 0
    /\ err = "none"
    /\ chk_cfg = PyNone
    /\ chk_result = "unused"
    /\ pc = "grid_start"
    /\ FindIdle /\ CreateIdle

NextGrid == GridStart \/ BindGcp \/ ConnectPair \/ EndOuter \/ NextGcp \/ Rerun

SpecGrid == InitGrid /\ [][NextGrid]_vars

\* ------------------------------------------- direct calls of the lookups
MaxFindLists == 2   \* most lists in the dict searched
MaxFindLen == 2     \* most entities in one of its lists

\* an entity with eid <<"dev", k>> of the simulator sim; an eid is unique within
\* its simulator only
FindEntity(k, sim, type) ==
    [eid |-> <<"dev", k>>, full_id |-> <<sim, <<"dev", k>>>>, type |-> type,
     sim_name |-> sim]

FindEntities ==
    {FindEntity(1, "CarSim", "car"), FindEntity(1, "EVSim", "EV"),
     FindEntity(2, "CarSim", "car")}

FindLists == UNION {[1..n -> FindEntities] : n \in 0..MaxFindLen}

InitFind ==
    /\ e_dict_list \in UNION {[1..m -> FindLists] : m \in 0..MaxFindLists}
    /\ e_id \in {<<"dev", 1>>, <<"dev", 2>>}
    /\ found = [fn |-> "pending", lst |-> 0, res |-> <<>>]
    /\ pc = "find"
    /\ PlannerIdle /\ GridIdle /\ CreateIdle

\* get_entity_by_id called on one of the lists
CallGetEntityById ==
    /\ pc = "find"
    /\ \E i \in 1..Len(e_dict_list) :
          found' = [fn |-> "get_entity_by_id", lst |-> i,
                    res |-> get_entity_by_id(e_dict_list[i], e_id)]
    /\ pc' = "done"
    /\ UNCHANGED <<pvars, gvars, cvars, e_dict_list, e_id>>

CallGetEntityByIdFromDictList ==
    /\ pc = "find"
    /\ found' = [fn |-> "get_entity_by_id_from_dict_list", lst |-> 0,
                 res |-> get_entity_by_id_from_dict_list(e_dict_list, e_id)]
    /\ pc' = "done"
    /\ UNCHANGED <<pvars, gvars, cvars, e_dict_list, e_id>>

NextFind == CallGetEntityById \/ CallGetEntityByIdFromDictList

SpecFind == InitFind /\ [][NextFind]_vars

\* ===================================================================== claims
\* edges made by the connection planner (not by the forecast binder)
IsPlannerEdge(e) == e.src # forecast /\ e.dst # forecast
\* positions in world of the edges made by the planner
PlannerEdges == {k \in DOMAIN world : IsPlannerEdge(world[k])}
GroupNames == {dict_entities[i].name : i \in 1..NumTypes}
EntSet(name) == {EntsOf(name)[k] : k \in 1..Len(EntsOf(name))}
\* number of world.connect calls from a to b with the given strength
NumCalls(a, b, weak) ==
    Cardinality({k \in DOMAIN world :
        world[k].src = a /\ world[k].dst = b /\ world[k].weak = weak})
\* a configuration as the specification describes it: a list of names and
\* of pairs of names
WellFormedElem(el) ==
    \/ el.py = "str"
    \/ /\ el.py = "tuple"
       /\ Len(el.items) = 2
       /\ el.items[1].py = "str"
       /\ el.items[2].py = "str"
WellFormedCfg(cfg) ==
    cfg.py = "list" /\ \A i \in 1..Len(cfg.elems) : WellFormedElem(cfg.elems[i])

\* controller types: the name contains "ems" or "EMS"
ControllerTypes == {name \in TypeNames : IsEmsName(name)}
IsController(name) == name \in ControllerTypes

\* C1: every edge between a controller entity (type name containing "ems" or
\* "EMS") and a device entity made by connect_entities is strong from device to
\* controller and weak from controller to device, whatever the order of the types.
C1_ControllerEdges ==
    \A k \in PlannerEdges : LET e == world[k] IN
        /\ (~IsController(e.src.type) /\ IsController(e.dst.type)) => e.weak = FALSE
        /\ (IsController(e.src.type) /\ ~IsController(e.dst.type)) => e.weak = TRUE

\* a finished run in which the controller type comes first and both kinds of
\* edges were made
C1_Witness ==
    /\ pc = "connected"
    /\ IsController(KeyOf(1))
    /\ \E k \in PlannerEdges : LET e == world[k] IN IsController(e.src.type) /\ ~IsController(e.dst.type)
    /\ \E k \in PlannerEdges : LET e == world[k] IN ~IsController(e.src.type) /\ IsController(e.dst.type)

\* vehicle types: the name contains "car"; station types: the name contains
\* "charging_station"; neither is a controller type
VehicleTypes ==
    {name \in TypeNames :
        /\ StrIn(S_car, Chars(name))
        /\ ~StrIn(S_charging_station, Chars(name))
        /\ ~IsEmsName(name)}
StationTypes ==
    {name \in TypeNames : StrIn(S_charging_station, Chars(name)) /\ ~IsEmsName(name)}
IsVehicleName(name) == name \in VehicleTypes
IsStationName(name) == name \in StationTypes

\* C2 as stated: between a vehicle type and a charging-station type the
\* station -> vehicle edges are strong and the vehicle -> station edges are weak
\* and seeded, whatever the order of the two types.
C2_StationStrong ==
    \A k \in PlannerEdges : LET e == world[k] IN
        /\ (IsStationName(e.src.type) /\ IsVehicleName(e.dst.type)) => e.weak = FALSE
        /\ (IsVehicleName(e.src.type) /\ IsStationName(e.dst.type))
              => (e.weak = TRUE /\ e.has_initial_data)

\* C2 as amended: between a type whose name contains "car" and a type whose name
\* contains "charging_station" (no controller involved) the vehicle -> station
\* edges are strong and the station -> vehicle edges are weak and seeded,
\* whatever the order of the two types.
C2_VehicleStrong ==
    \A k \in PlannerEdges : LET e == world[k] IN
        /\ (IsVehicleName(e.src.type) /\ IsStationName(e.dst.type)) => e.weak = FALSE
        /\ (IsStationName(e.src.type) /\ IsVehicleName(e.dst.type))
              => (e.weak = TRUE /\ e.has_initial_data)

\* a finished run in which the station type comes first and both kinds of edges
\* were made
C2_Witness ==
    /\ pc = "connected"
    /\ \E i, j \in 1..NumTypes :
          i < j /\ IsStationName(KeyOf(i)) /\ IsVehicleName(KeyOf(j))
    /\ \E k \in PlannerEdges : LET e == world[k] IN
          IsStationName(e.src.type) /\ IsVehicleName(e.dst.type) /\ e.weak
    /\ \E k \in PlannerEdges : LET e == world[k] IN
          IsVehicleName(e.src.type) /\ IsStationName(e.dst.type) /\ ~e.weak

AllEnts == UNION {EntSet(name) : name \in GroupNames}
StrongSucc(a) ==
    {world[k].dst : k \in {j \in DOMAIN world : world[j].src = a /\ ~world[j].weak}}
\* entities reached from the set `from` over at most n strong edges (n >= 1)
RECURSIVE StrongReach(_, _)
StrongReach(from, n) ==
    LET step == UNION {StrongSucc(a) : a \in from}
    IN IF n <= 1 THEN step ELSE step \cup StrongReach(step, n - 1)

\* C3: after a successful connect_entities run the strong edges form no cycle,
\* no two entities are linked by strong edges in both directions, and every
\* weak edge b -> a has a strong edge a -> b.
C3_StrongAcyclic ==
    pc = "connected" =>
        /\ \A a \in AllEnts : a \notin StrongReach({a}, Cardinality(AllEnts))
        /\ \A k \in DOMAIN world : LET e == world[k] IN ~e.weak =>
              ~\E j \in DOMAIN world : LET f == world[j] IN ~f.weak /\ f.src = e.dst /\ f.dst = e.src
        /\ \A k \in DOMAIN world : LET e == world[k] IN e.weak =>
              \E j \in DOMAIN world : LET f == world[j] IN ~f.weak /\ f.src = e.dst /\ f.dst = e.src

\* the pair of types the next pass of the inner loop wires
CurDirection == Direction(KeyOf(idx_model_outer), KeyOf(NextInner))
CurCfgStrong == model_connect_config[CurDirection.name_from][CurDirection.name_to]
CurCfgWeak == model_connect_config[CurDirection.name_to][CurDirection.name_from]
CallsTwoTypes == pc = "connect" /\ NextInner <= NumTypes

\* C4: a call of connect_entities_of_two_model_types with an empty strong
\* mapping and a non-empty weak mapping fails with ValueError and registers no
\* edge and no controlled entity; with both mappings empty it returns without
\* error and registers no edge.
C4_DanglingWeak ==
    [][CallsTwoTypes =>
        /\ (IsEmptyList(CurCfgStrong) /\ WellFormedCfg(CurCfgWeak)
              /\ ~IsEmptyList(CurCfgWeak))
             => (err' = "ValueError" /\ pc' = "failed"
                    /\ world' = world /\ ems_sim' = ems_sim)
        /\ (IsEmptyList(CurCfgStrong) /\ IsEmptyList(CurCfgWeak))
             => (err' = "none" /\ pc' = "connect"
                    /\ world' = world /\ ems_sim' = ems_sim)]_vars

\* a run ended by the ValueError of a weak mapping without a strong one
C4_Witness ==
    /\ pc = "failed"
    /\ err = "ValueError"
    /\ \E a, b \in GroupNames :
          /\ a # b
          /\ IsEmptyList(model_connect_config[a][b])
          /\ model_connect_config[b][a] = CfgPairs

\* the pair of types a, b is wired with a as the strong side
WiredFrom(a, b) ==
    /\ ~IsEmptyList(model_connect_config[a][b])
    /\ \A s \in EntSet(a), w \in EntSet(b) :
          /\ NumCalls(s, w, FALSE) = 1
          /\ NumCalls(w, s, FALSE) = 0
          /\ NumCalls(s, w, TRUE) = 0
          /\ NumCalls(w, s, TRUE) =
                IF IsEmptyList(model_connect_config[b][a]) THEN 0 ELSE 1
NotWired(a, b) ==
    /\ IsEmptyList(model_connect_config[a][b])
    /\ IsEmptyList(model_connect_config[b][a])
    /\ \A s \in EntSet(a), w \in EntSet(b), weak \in BOOLEAN :
          NumCalls(s, w, weak) = 0 /\ NumCalls(w, s, weak) = 0

\* C5: in a finished connect_entities run no type is wired to itself and every
\* pair of distinct types is wired once: one strong edge s -> w for every s of
\* the strong group and w of the weak group, and a weak edge w -> s for each of
\* them exactly when the reverse mapping is not empty; a pair without mappings
\* gets no edge.
C5_PairsWiredOnce ==
    pc = "connected" =>
        /\ \A k \in DOMAIN world : LET e == world[k] IN e.src.type # e.dst.type
        /\ \A a, b \in GroupNames :
              a # b => (WiredFrom(a, b) \/ WiredFrom(b, a) \/ NotWired(a, b))

\* a finished run with a pair of types that has a forward mapping only, and
\* groups of more than one entity
C5_Witness ==
    /\ pc = "connected"
    /\ \E a, b \in GroupNames :
          /\ a # b
          /\ model_connect_config[a][b] = CfgPairs
          /\ IsEmptyList(model_connect_config[b][a])
          /\ Cardinality(EntSet(a)) > 1
          /\ \E k \in DOMAIN world : LET e == world[k] IN e.src.type = a /\ e.dst.type = b /\ ~e.weak

\* C6: the initial data of every weak edge w -> s made by the planner has, for
\* every element of the reverse mapping (a name, or the first name of a pair),
\* an entry that gives the value zero under the full_id of the strong entity s.
C6_WeakSeed ==
    \A k \in PlannerEdges : LET e == world[k] IN e.weak =>
        \A i \in 1..Len(e.attrs) :
            LET el == e.attrs[i]
                key == IF el.py = "str" THEN el.s ELSE el.items[1].s
            IN [attr |-> key, id |-> e.dst.full_id, value |-> PyZero]
                   \in e.initial_data

\* a weak planner edge whose mapping has a name and a pair of names, towards a
\* strong group of more than one entity
C6_Witness ==
    \E k \in PlannerEdges : LET e == world[k] IN
        /\ e.weak
        /\ \E i \in 1..Len(e.attrs) : e.attrs[i].py = "tuple"
        /\ \E i \in 1..Len(e.attrs) : e.attrs[i].py = "str"
        /\ Cardinality(EntSet(e.dst.type)) > 1

\* C7 as stated: every world.connect call with weak=True passes initial_data,
\* keyed by the full_id of the entity passed as the source of that weak edge.
C7_SeedKeyedBySource ==
    \A k \in DOMAIN world : LET e == world[k] IN e.weak =>
        /\ e.has_initial_data
        /\ \A d \in e.initial_data : d.id = e.src.full_id

\* C7 as amended: every world.connect call with weak=True passes initial_data;
\* the forecast binder keys it by the full_id of the forecast entity, the source
\* of the edge, and the planner keys it by the full_ids of the entities of the
\* strong group, the edge's destination among them.
C7_SeedKeys ==
    \A k \in DOMAIN world : LET e == world[k] IN e.weak =>
        /\ e.has_initial_data
        /\ e.initial_data # {}
        /\ e.src = forecast =>
              {d.id : d \in e.initial_data} = {forecast.full_id}
        /\ IsPlannerEdge(e) =>
              /\ {d.id : d \in e.initial_data}
                    = {s.full_id : s \in EntSet(e.dst.type)}
              /\ e.dst.full_id \in {d.id : d \in e.initial_data}

\* weak edges of the planner and of the forecast binder in one world
C7_Witness ==
    /\ pc = "done"
    /\ \E k \in DOMAIN world : LET e == world[k] IN e.weak /\ e.src = forecast
    /\ \E k \in PlannerEdges : LET e == world[k] IN e.weak /\ Cardinality(EntSet(e.dst.type)) > 1

\* C8 as stated: when connect_entities fails with TypeError because of a
\* malformed mapping, no edge and no controlled entity has been registered.
C8_NothingRegistered ==
    (pc = "failed" /\ err = "TypeError") => (world = <<>> /\ ems_sim = <<>>)

\* the two types of the pair whose wiring ended the run
FailedPair == {KeyOf(idx_model_outer), KeyOf(idx_model_inner)}

\* C8 as amended: when connect_entities fails with TypeError because of a
\* malformed mapping, no edge and no controlled entity has been registered for
\* the pair of types with that mapping; what earlier pairs registered stays.
C8_FailedPairUnwired ==
    (pc = "failed" /\ err = "TypeError") =>
        /\ \A k \in DOMAIN world : LET e == world[k] IN {e.src.type, e.dst.type} # FailedPair
        /\ \A c \in DOMAIN ems_sim :
              {ems_sim[c].ctrl[1], ems_sim[c].sub[1]} # FailedPair

\* a run ended by a malformed mapping after earlier pairs were wired
C8_Witness ==
    /\ pc = "failed"
    /\ err = "TypeError"
    /\ world # <<>>
    /\ ems_sim # <<>>

\* C9: check_model_connect_config raises TypeError exactly when the
\* configuration is not a list or has an element that is neither a string nor a
\* tuple of exactly two strings, and returns normally otherwise.
C9_CheckConfig ==
    chk_result # "pending" =>
        /\ chk_result \in {"ok", "TypeError"}
        /\ chk_result = "TypeError" <=> ~WellFormedCfg(chk_cfg)

\* the descriptor registered last for sub with the controller ctrl, if any
Controlled(ctrl, sub) ==
    LET ks == {k \in DOMAIN ems_sim : ems_sim[k].ctrl = ctrl /\ ems_sim[k].sub = sub}
    IN IF ks = {} THEN {}
       ELSE {ems_sim[CHOOSE k \in ks : \A j \in ks : j <= k].desc}
ControlledKeys(calls) == {<<calls[k].ctrl, calls[k].sub>> : k \in DOMAIN calls}

\* C10 as stated: after a successful run every controller entity holds the
\* descriptor of every device entity of every device type with a non-empty
\* mapping towards the controller type.
C10_AllControllers ==
    pc = "connected" =>
        \A c, d \in GroupNames :
            (IsController(c) /\ ~IsController(d) /\ ~IsEmptyList(model_connect_config[d][c]))
            => \A ce \in EntSet(c), de \in EntSet(d) :
                  Controlled(ce.eid, de.eid) = {Descriptor(de)}

\* C10 as amended: after a successful run every controller entity whose
\* simulator is "EMSSim" holds the descriptor of every device entity of every
\* device type with a non-empty mapping towards the controller type, and no
\* step of the run removes an entry.
C10_EmsSimControllers ==
    /\ [](pc = "connected" =>
            \A c, d \in GroupNames :
                (IsController(c) /\ ~IsController(d)
                    /\ ~IsEmptyList(model_connect_config[d][c]))
                => \A ce \in EntSet(c), de \in EntSet(d) :
                      ce.sim_name = "EMSSim"
                         => Controlled(ce.eid, de.eid) = {Descriptor(de)})
    /\ [][ControlledKeys(ems_sim) \subseteq ControlledKeys(ems_sim')]_vars

\* a finished run in which a controller of "EMSSim" has registered devices
C10_Witness ==
    /\ pc = "connected"
    /\ \E c, d \in GroupNames :
          /\ IsController(c) /\ ~IsController(d)
          /\ ~IsEmptyList(model_connect_config[d][c])
          /\ Cardinality(EntSet(d)) > 1
          /\ \E ce \in EntSet(c), de \in EntSet(d) :
                ce.sim_name = "EMSSim" /\ Controlled(ce.eid, de.eid) # {}

\* types the forecast binder takes for controllers: the name, in lower case,
\* contains "ems"
ForecastControllerTypes == {name \in TypeNames : StrIn(S_ems, StrLower(Chars(name)))}
\* positions in world of the edges from a to b
CallsBetween(a, b) == {j \in DOMAIN world : world[j].src = a /\ world[j].dst = b}

\* C15: after connect_to_forecast every entity of a controller type has exactly
\* one strong edge to the forecast entity carrying "forecast_request", exactly
\* one weak edge from it carrying "forecast" and seeded with an empty result,
\* and no entry in the subject registry; every entity of another type has an
\* entry in the subject registry under its full_id and no edge to or from the
\* forecast entity.
C15_ForecastBinding ==
    pc = "done" =>
        \A i \in 1..NumTypes : \A k \in 1..Len(dict_entities[i].ents) :
            LET e == dict_entities[i].ents[k]
                registered == {j \in DOMAIN forecast_sim : forecast_sim[j].id = e.full_id}
            IN IF KeyOf(i) \in ForecastControllerTypes
               THEN /\ Cardinality(CallsBetween(e, forecast)) = 1
                    /\ \A j \in CallsBetween(e, forecast) :
                          /\ ~world[j].weak
                          /\ world[j].attrs = <<ElemStr("forecast_request")>>
                    /\ Cardinality(CallsBetween(forecast, e)) = 1
                    /\ \A j \in CallsBetween(forecast, e) :
                          /\ world[j].weak
                          /\ world[j].attrs = <<ElemStr("forecast")>>
                          /\ world[j].has_initial_data
                          /\ world[j].initial_data =
                                {[attr |-> "forecast", id |-> forecast.full_id,
                                  value |-> PyEmptyDict]}
                    /\ registered = {}
               ELSE /\ Cardinality(registered) = 1
                    /\ \A j \in registered : forecast_sim[j].forecast = forecast.eid
                    /\ CallsBetween(e, forecast) = {}
                    /\ CallsBetween(forecast, e) = {}

\* the forecast binder has handled a controller type with upper-case letters in
\* its name and a device type, both with entities
C15_Witness ==
    /\ pc = "done"
    /\ HasKey("GridEMS") /\ Len(EntsOf("GridEMS")) > 0
    /\ CallsBetween(forecast, EntsOf("GridEMS")[1]) # {}
    /\ \E i \in 1..NumTypes :
          /\ KeyOf(i) \notin ForecastControllerTypes
          /\ Len(dict_entities[i].ents) > 1
    /\ forecast_sim # <<>>

\* C19: a call of connect_entities_of_two_model_types with well-formed,
\* non-empty mappings and an empty strong or weak entity list registers no edge
\* and no controlled entity and returns without raising.
C19_EmptyGroupNoOp ==
    [][(/\ CallsTwoTypes
        /\ WellFormedCfg(CurCfgStrong) /\ ~IsEmptyList(CurCfgStrong)
        /\ WellFormedCfg(CurCfgWeak) /\ ~IsEmptyList(CurCfgWeak)
        /\ \/ Len(EntsOf(CurDirection.name_from)) = 0
           \/ Len(EntsOf(CurDirection.name_to)) = 0)
       => (err' = "none" /\ pc' = "connect" /\ world' = world /\ ems_sim' = ems_sim)]_vars

\* the entities a lookup call went through, in iteration order
Searched ==
    IF found.fn = "get_entity_by_id" THEN e_dict_list[found.lst]
    ELSE Flatten(e_dict_list)

\* C17: get_entity_by_id and get_entity_by_id_from_dict_list return (None,
\* None) exactly when no entity searched has the given eid, and otherwise the
\* first entity with that eid in iteration order together with a descriptor of
\* that entity's eid, full_id and type.
C17_Lookup ==
    found.fn \in {"get_entity_by_id", "get_entity_by_id_from_dict_list"} =>
        LET hits == {i \in 1..Len(Searched) : Searched[i].eid = e_id}
        IN IF hits = {} THEN found.res = <<>>
           ELSE LET first == Searched[CHOOSE i \in hits : \A k \in hits : i <= k]
                IN /\ Len(found.res) = 2
                   /\ found.res[1] = first
                   /\ found.res[2] =
                         [eid |-> first.eid, full_id |-> first.full_id, type |-> first.type]

\* a lookup across two lists that both hold the eid, for different entities
C17_Witness ==
    /\ found.fn = "get_entity_by_id_from_dict_list"
    /\ Len(e_dict_list) = 2
    /\ \E i \in 1..Len(e_dict_list[1]), k \in 1..Len(e_dict_list[2]) :
          /\ e_dict_list[1][i].eid = e_id
          /\ e_dict_list[2][k].eid = e_id
          /\ e_dict_list[1][i] # e_dict_list[2][k]
    /\ Len(found.res) = 2

\* C16: create_entities_of_model raises KeyError whenever the factory has no
\* model of the name, whatever init_vals is; otherwise TypeError when init_vals
\* is not a list; otherwise it returns an empty list without a create request
\* for an empty list, and for a non-empty list makes exactly one create request
\* for len(init_vals) entities and returns its result.
C16_CreateOfModel ==
    create_args.fn = "create_entities_of_model" =>
        IF create_args.model_name \notin create_args.model_factory
        THEN create_err = "KeyError" /\ create_calls = <<>>
        ELSE IF create_args.init_vals.py # "list"
        THEN create_err = "TypeError" /\ create_calls = <<>>
        ELSE IF Len(create_args.init_vals.elems) = 0
        THEN create_err = "none" /\ create_calls = <<>> /\ entity_list = <<>>
        ELSE /\ create_err = "none"
             /\ Len(create_calls) = 1
             /\ create_calls[1].model = create_args.model_name
             /\ create_calls[1].num = Len(create_args.init_vals.elems)
             /\ create_calls[1].init_vals = create_args.init_vals.elems
             /\ entity_list = create_calls[1].result

\* a call with a list of MaxInit objects for a model the factory has
C16_Witness ==
    /\ create_args.fn = "create_entities_of_model"
    /\ create_args.model_name \in create_args.model_factory
    /\ Len(create_calls) = 1
    /\ create_calls[1].num = MaxInit
    /\ Len(entity_list) = MaxInit

\* the objects of model_data["ems"] that name the strategy
EmsObjects(strategy) == EmsDataOf(model_data["ems"].elems, strategy)
UsedStrategies ==
    {model_data["ems"].elems[i].strategy : i \in DOMAIN model_data["ems"].elems}

\* C20: when create_entities returns for "ems" data that uses k >= 1
\* strategies, the dict returned has exactly one key for each strategy, and
\* under it the entities created for the model of that strategy from exactly
\* the objects that name the strategy.
C20_OneKeyPerStrategy ==
    (/\ create_args.fn = "create_entities"
     /\ create_err = "none"
     /\ "ems" \in Range(sim_config)
     /\ UsedStrategies # {})
    => /\ {created[i].name : i \in DOMAIN created} \cap Strategies = UsedStrategies
       /\ \A i \in DOMAIN created :
             created[i].name \in Strategies =>
                created[i].ents =
                   [k \in DOMAIN EmsObjects(created[i].name) |->
                       [type |-> created[i].name, init |-> EmsObjects(created[i].name)[k]]]

\* ------------------------------------------------- connect_entities_in_grid
GivenDict(i) == grid_model_config_given[i].gcp_dict
GivenId(i) == grid_model_config_given[i].gcp_id
GivenEms(i) == GcpGet(GivenDict(i), "ems")
\* ids listed in the device categories of the i-th grid connection point
GivenListed(i) == ListedIds(GcpDel(GivenDict(i), "ems"))
\* a controller is designated for the i-th grid connection point
EmsDesignated(i) == GivenEms(i).py # "NoneType" /\ GivenEms(i).ids # <<>>
\* the id is the eid of a created entity
Known(id) ==
    \E t \in DOMAIN grid_dict_entities : \E k \in DOMAIN grid_dict_entities[t].ents :
        grid_dict_entities[t].ents[k].eid = id
ListedKnown(i) == \A j \in DOMAIN GivenListed(i) : Known(GivenListed(i)[j])
RefsUnknown(i) ==
    ~ListedKnown(i) \/ (EmsDesignated(i) /\ ~Known(GivenEms(i).ids[1]))
\* a grid load has the id of the i-th grid connection point
HasLoad(i) == \E k \in DOMAIN grid_loads : grid_loads[k].eid = GivenId(i)
\* positions in world of the edges into the load
EdgesInto(load) == {k \in DOMAIN world : world[k].dst = load}
\* existing vehicles and no charging station at the i-th grid connection point
NeedsStation(i) ==
    /\ Len(GcpGet(GivenDict(i), "ev").ids) > 0
    /\ Len(GcpGet(GivenDict(i), "cs").ids) = 0
    /\ ListedKnown(i)
\* the first call handles the i-th grid connection point next
Handles(i) == pc = "gcp" /\ run = 1 /\ idx_gcp = i

\* C11: when connect_entities_in_grid handles a grid connection point whose
\* configuration names, in a device category or as its controller, an id of no
\* created entity, it fails with the KeyError of an unknown entity before any
\* edge into the load of that point is made.
C11_UnknownReference ==
    [][\A i \in DOMAIN grid_model_config_given :
          (Handles(i) /\ RefsUnknown(i) /\ ~NeedsStation(i))
          => (grid_err' = E_NotCreated /\ pc' = "failed" /\ world' = world)]_vars

\* the first call never returns with a grid connection point that must fail
NeverReturnsWith(must_fail(_)) ==
    (run = 1 /\ pc = "returned") =>
        \A i \in DOMAIN grid_model_config_given : ~must_fail(i)
\* handling such a grid connection point ends with the ValueError, no edge made
StationStep ==
    \A i \in DOMAIN grid_model_config_given :
        (Handles(i) /\ NeedsStation(i))
        => (grid_err' = E_NoStation /\ pc' = "failed" /\ world' = world)
\* the ValueError is raised only for a grid connection point without station
StationErrorOnlyWithout ==
    grid_err = E_NoStation => Len(GcpGet(GivenDict(idx_gcp), "cs").ids) = 0
\* the i-th grid connection point comes after one without a grid load
AfterUnmatched(i) == \E j \in 1..(i - 1) : ~HasLoad(j)
StationNeededAndReached(i) == NeedsStation(i) /\ ~AfterUnmatched(i)

TypeOfId(id) ==
    LET t == CHOOSE t \in DOMAIN grid_dict_entities :
                 \E k \in DOMAIN grid_dict_entities[t].ents :
                     grid_dict_entities[t].ents[k].eid = id
    IN grid_dict_entities[t].name
\* the listed entities of the i-th point whose type has a "grid_load" mapping
Candidates(i) ==
    {j \in DOMAIN GivenListed(i) :
        "grid_load" \in DOMAIN model_connect_config[TypeOfId(GivenListed(i)[j])]}
\* the first call has linked the i-th point to its load without an error
Bound(i) ==
    /\ run = 1
    /\ HasLoad(i)
    /\ \/ i < idx_gcp
       \/ i = idx_gcp /\ pc \in {"connect", "connected", "returned"}

\* C13: every grid load has at most one edge into it; at a grid connection
\* point with a designated controller that edge comes from the controller and
\* from no device; without a controller a point is bound only if at most one
\* of its entities has a type with a "grid_load" mapping, and the attempt to
\* link a second one fails with the KeyError of two connections, one edge made.
C13_OnePrimaryOccupant ==
    /\ \A l \in DOMAIN grid_loads : Cardinality(EdgesInto(grid_loads[l])) <= 1
    /\ \A i \in DOMAIN grid_model_config_given :
          /\ EmsDesignated(i) =>
                \A k \in DOMAIN world :
                    world[k].dst.eid = GivenId(i) => world[k].src.eid = GivenEms(i).ids[1]
          /\ (~EmsDesignated(i) /\ Bound(i)) => Cardinality(Candidates(i)) <= 1
    /\ grid_err = E_TwoConnections =>
          /\ ~EmsDesignated(idx_gcp)
          /\ Cardinality(Candidates(idx_gcp)) >= 2
          /\ Cardinality({k \in DOMAIN world : world[k].dst.eid = GivenId(idx_gcp)}) = 1

\* the second device of the second grid connection point was refused after
\* the controller of the first one was linked to its load
C13_Witness ==
    /\ grid_err = E_TwoConnections
    /\ idx_gcp = 2
    /\ EmsDesignated(1)
    /\ EdgesInto(GridLoad(1)) # {}
    /\ Cardinality(EdgesInto(GridLoad(2))) = 1

\* C14: a grid connection point whose id no grid load has (the list of grid
\* loads may be empty) gets no edge and raises no error, and the call goes on
\* with the next grid connection point.
C14_SkipUnmatched ==
    [][\A i \in DOMAIN grid_model_config_given :
          (Handles(i) /\ ~HasLoad(i) /\ ~RefsUnknown(i) /\ ~NeedsStation(i))
          => /\ world' = world
             /\ grid_err' = "none"
             /\ IF i < Len(grid_model_config)
                THEN pc' = "gcp" /\ idx_gcp' = i + 1
                ELSE pc' = "returned"]_vars

\* C18: the first call of connect_entities_in_grid leaves the grid model
\* configuration as it was given, a second call on the same objects ends
\* without error, and it adds no edge and no controlled entity that the first
\* call had not registered.
C18_Idempotent ==
    /\ [](pc = "returned" => grid_model_config = grid_model_config_given)
    /\ [](run = 2 => (grid_err = "none" /\ err = "none"))
    /\ [][run' = 2 => (Range(world') = Range(world)
                          /\ Range(ems_sim') = Range(ems_sim))]_vars

====
